---- MODULE Spec2Model ----
(***************************************************************************)
(* Model of the text-generation core of ai-cli:                            *)
(*   src/src/token_output_stream.rs  (TokenOutputStream)                   *)
(*   src/src/text_generation.rs      (TextGeneration::new / run)           *)
(*                                                                         *)
(* Text is a sequence of characters; every character has a width in bytes, *)
(* because Rust's String::len and str::split_at count bytes.               *)
(***************************************************************************)
EXTENDS Integers, Sequences, FiniteSets, TLC

\* ------------------------------------------------------------------ bounds
\* Most events a Bedrock response stream delivers before it ends.
MaxEvents == 3
\* Longest token history a TokenOutputStream is driven to.
MaxTokens == 4
\* Largest sample_len passed to run.
MaxSampleLen == 3
\* Number of run calls made on one TextGeneration value.
MaxRuns == 2
\* Largest sample_len of the runs of two generators that are compared.
MaxDetSampleLen == 2

\* ------------------------------------------------------------- vocabulary
\* Token ids of the codec.  A token's piece is a sequence of units: a unit is
\* a whole character or one half (HI, LO) of the two-byte letter CH_E.
T_A   == 0   \* "a"
T_SPB == 1   \* " b"   (word-initial piece)
T_DOT == 2   \* "."
T_HI  == 3   \* first byte of the two-byte letter
T_LO  == 4   \* second byte of the two-byte letter
T_EOS == 5   \* "<|endoftext|>", a special token

Token == {T_A, T_SPB, T_DOT, T_HI, T_LO, T_EOS}

CH_E == "e2"      \* a two-byte alphabetic character
REPL == "fffd"    \* U+FFFD, what an incomplete byte sequence decodes to

Piece(t) ==
    CASE t = T_A   -> <<"a">>
      [] t = T_SPB -> <<" ", "b">>
      [] t = T_DOT -> <<".">>
      [] t = T_HI  -> <<"HI">>
      [] t = T_LO  -> <<"LO">>
      [] t = T_EOS -> <<>>

\* String::len of one character (UTF-8 bytes).
Width(c) == IF c = CH_E THEN 2 ELSE IF c = REPL THEN 3 ELSE 1

RECURSIVE ByteLen(_)
ByteLen(text) ==
    IF text = <<>> THEN 0 ELSE Width(Head(text)) + ByteLen(Tail(text))

\* char::is_alphanumeric
IsAlphanumeric(c) == c \in {"a", "b", CH_E}

\* ----------------------------------------------------------------- decode
\* tokenizer.decode(tokens, skip_special_tokens = true): the pieces of the
\* tokens are joined (a special token contributes nothing), the bytes are
\* read as UTF-8 with every incomplete sequence replaced by U+FFFD, and one
\* leading space of the whole result is dropped.
RECURSIVE Units(_)
Units(toks) ==
    IF toks = <<>> THEN <<>> ELSE Piece(Head(toks)) \o Units(Tail(toks))

RECURSIVE Lossy(_)
Lossy(units) ==
    IF units = <<>> THEN <<>>
    ELSE IF Head(units) = "HI" /\ Len(units) >= 2 /\ units[2] = "LO"
         THEN <<CH_E>> \o Lossy(Tail(Tail(units)))
    ELSE IF Head(units) \in {"HI", "LO"}
         THEN <<REPL>> \o Lossy(Tail(units))
    ELSE <<Head(units)>> \o Lossy(Tail(units))

StripLeading(text) ==
    IF text # <<>> /\ Head(text) = " " THEN Tail(text) ELSE text

Decode(toks) == StripLeading(Lossy(Units(toks)))

\* str::split_at(n).1 : the part of text after its first n bytes.  split_at
\* panics when n is not on a character boundary; IsCharBoundary says it is.
IsCharBoundary(text, n) ==
    \E k \in 0..Len(text) : ByteLen(SubSeq(text, 1, k)) = n

SplitAt(text, n) ==
    LET k == CHOOSE j \in 0..Len(text) : ByteLen(SubSeq(text, 1, j)) = n
    IN  SubSeq(text, k + 1, Len(text))

\* ------------------------------------------------------ TokenOutputStream
\* TokenOutputStream::new
NewStream == [tokens |-> <<>>, prev_index |-> 0, current_index |-> 0]

\* &self.tokens[from..to] with 0-based, end-exclusive indices
Slice(toks, from, to) == SubSeq(toks, from + 1, to)

\* "Get previously decoded text" (next_token and decode_rest)
PrevText(s) ==
    IF s.tokens = <<>> THEN <<>>
    ELSE Decode(Slice(s.tokens, s.prev_index, s.current_index))

\* A test that looks at the lengths alone.
CompletesWordLengthOnly(text, prev_text) == ByteLen(text) > ByteLen(prev_text)

\* The word test of next_token.
CompletesWord(text, prev_text) ==
    /\ ByteLen(text) > ByteLen(prev_text)
    /\ IsAlphanumeric(text[Len(text)])

\* The cursor update with its two assignments in the other order: prev_index
\* takes the value current_index has just been given.
AdvanceSwapped(s, pushed) ==
    [tokens        |-> pushed,
     prev_index    |-> Len(pushed),
     current_index |-> Len(pushed)]

\* A cursor update that moves current_index on by the one token pushed.
AdvanceByOne(s, pushed) ==
    [tokens        |-> pushed,
     prev_index    |-> s.current_index,
     current_index |-> s.current_index + 1]

\* The cursor update of next_token.
Advance(s, pushed) ==
    [tokens        |-> pushed,
     prev_index    |-> s.current_index,
     current_index |-> Len(pushed)]

\* A next_token that moves the cursors before it decodes, so that a failed
\* decode leaves them moved.
next_tokenCursorsFirst(s, token, fail) ==
    LET prev_text == PrevText(s)
        pushed    == Append(s.tokens, token)
        text      == Decode(Slice(pushed, s.prev_index, Len(pushed)))
    IN  IF fail # "none"
        THEN [stream |-> Advance(s, pushed), kind |-> "err", frag |-> <<>>]
        ELSE IF CompletesWord(text, prev_text)
                  /\ IsCharBoundary(text, ByteLen(prev_text))
        THEN [stream |-> Advance(s, pushed), kind |-> "some",
              frag |-> SplitAt(text, ByteLen(prev_text))]
        ELSE [stream |-> [s EXCEPT !.tokens = pushed],
              kind |-> "none", frag |-> <<>>]

\* TokenOutputStream::next_token.  fail says which of the two decode calls
\* returns Err ("none", "first", "second").  The result names the stream
\* afterwards and what the call returned: kind "some" (Ok(Some(frag))),
\* "none" (Ok(None)), "err" (Err), "panic" (split_at off a boundary).
next_token(s, token, fail) ==
    LET prev_text == PrevText(s)
        pushed    == Append(s.tokens, token)
        text      == Decode(Slice(pushed, s.prev_index, Len(pushed)))
    IN  IF fail = "first" /\ s.tokens # <<>>
        THEN [stream |-> s, kind |-> "err", frag |-> <<>>]
        ELSE IF fail = "second"
        THEN [stream |-> [s EXCEPT !.tokens = pushed],
              kind |-> "err", frag |-> <<>>]
        ELSE IF CompletesWord(text, prev_text)
        THEN IF IsCharBoundary(text, ByteLen(prev_text))
             THEN [stream |-> Advance(s, pushed), kind |-> "some",
                   frag |-> SplitAt(text, ByteLen(prev_text))]
             ELSE [stream |-> [s EXCEPT !.tokens = pushed],
                   kind |-> "panic", frag |-> <<>>]
        ELSE [stream |-> [s EXCEPT !.tokens = pushed],
              kind |-> "none", frag |-> <<>>]

\* A decode_rest that returns the whole text of the window.
decode_restWhole(s, fail) ==
    [kind |-> "some",
     frag |-> Decode(Slice(s.tokens, s.prev_index, Len(s.tokens)))]

\* TokenOutputStream::decode_rest (takes &self: the stream is not changed).
decode_rest(s, fail) ==
    LET prev_text == PrevText(s)
        text      == Decode(Slice(s.tokens, s.prev_index, Len(s.tokens)))
    IN  IF (fail = "first" /\ s.tokens # <<>>) \/ fail = "second"
        THEN [kind |-> "err", frag |-> <<>>]
        ELSE IF ByteLen(text) > ByteLen(prev_text)
        THEN IF IsCharBoundary(text, ByteLen(prev_text))
             THEN [kind |-> "some", frag |-> SplitAt(text, ByteLen(prev_text))]
             ELSE [kind |-> "panic", frag |-> <<>>]
        ELSE [kind |-> "none", frag |-> <<>>]

\* TokenOutputStream::decode_all
decode_all(s) == Decode(s.tokens)

\* A clear that rewinds the cursors and keeps the history.
clearIndicesOnly(s) == [s EXCEPT !.prev_index = 0, !.current_index = 0]

\* A clear that empties the history and leaves the cursors where they are.
clearTokensOnly(s) == [s EXCEPT !.tokens = <<>>]

\* TokenOutputStream::clear
clear(s) == [tokens |-> <<>>, prev_index |-> 0, current_index |-> 0]

\* --------------------------------------------------------------- encode
\* tokenizer.encode(prompt, true): the prompt is cut into pieces of the
\* vocabulary from the left, the two-byte letter falls back to its two byte
\* tokens, and a character with no piece yields no token.
RECURSIVE Encode(_)
Encode(text) ==
    IF text = <<>> THEN <<>>
    ELSE IF Head(text) = " " /\ Len(text) >= 2 /\ text[2] = "b"
         THEN <<T_SPB>> \o Encode(Tail(Tail(text)))
    ELSE IF Head(text) = "a"  THEN <<T_A>> \o Encode(Tail(text))
    ELSE IF Head(text) = "."  THEN <<T_DOT>> \o Encode(Tail(text))
    ELSE IF Head(text) = CH_E THEN <<T_HI, T_LO>> \o Encode(Tail(text))
    ELSE Encode(Tail(text))

\* The prompts run is called with.
Prompts ==
    { <<>>,
      <<CH_E>>,
      <<"a", " ", "b", ".">> }

\* enum Model
Variants == {"Phi", "Phi3", "Quantized"}

\* ------------------------------------------------------------------ state
VARIABLES
    \* TextGeneration
    variant,          \* which Model the generator holds
    faulty,           \* whether the calls run makes can return Err here
    has_eos,          \* the vocabulary has an entry for "<|endoftext|>"
    tokenizer,        \* the TokenOutputStream (TextGeneration.tokenizer)
    logits_processor, \* the sampler: its seed and how many draws it has made
    repeat_penalty,   \* the penalty factor, in tenths (10 is the f32 1.0)
    repeat_last_n,    \* how many tokens of the history the penalty looks at
    kv,               \* every token the model has been fed since it was loaded
    \* one call of run
    pc,               \* where the call stands
    prompt,           \* its prompt argument
    sample_len,       \* its sample_len argument
    tokens,           \* the local token history
    generated_tokens, \* the local counter
    pos,              \* the local position
    index,            \* the loop variable
    context_size,     \* the window size of the step in progress
    sink,             \* what has been written to the stream argument
    pending,          \* the fragment the next write_all is called with
    outcome,          \* how the loop ended: "Stopped", "Exhausted" or "None"
    error,            \* which call made run return Err, or "none"
    logits,           \* the scores the model returned in the last step
    scores,           \* the scores the sampler was handed in the last step
    penalized,        \* the tokens the penalty was given in the last step
    events,           \* the calls the current run has made, where followed
    \* observations
    runs,             \* run calls made on this generator
    forwards,         \* forward passes of the current run
    lookups,          \* get_token calls of the current run
    windows,          \* every window the model received in the current run
    offsets,          \* every pos the Phi3 model received in the current run
    entry,            \* the tokenizer as the current run found it
    emitted,          \* every fragment next_token returned since new/clear
    rest,             \* what the last decode_rest returned
    flushed,          \* decode_rest was the last call on the stream
    halted,           \* the last stream call returned Err or panicked
    cleared,          \* clear has been called on the stream
    \* BedrockAiBackend::invoke
    invoke_pc,        \* where the call stands
    received,         \* what stream.recv() has returned so far
    response_text,    \* the local accumulator
    returned,         \* the text invoke returned
    \* LocalAiBackend::load_local_model
    settings,         \* the backend's local_model_config
    load_pc,          \* where the call stands
    load_error,       \* which call made it return Err, or "none"
    \* two generators compared
    built,            \* TextGeneration values constructed so far
    oracle,           \* the tokens the model and sampler are known to yield
    reference         \* the first run of the generator built before this one

genVars == <<variant, faulty, has_eos, logits_processor, kv, repeat_penalty,
             repeat_last_n>>

runVars == <<pc, prompt, sample_len, tokens, generated_tokens, pos, index,
             context_size, sink, pending, outcome, error,
             runs, forwards, offsets, entry, lookups, windows, events>>

scoreVars == <<logits, scores, penalized>>

backendVars == <<invoke_pc, received, response_text, returned, settings,
                 load_pc, load_error>>

streamVars == <<tokenizer, emitted, rest, flushed, halted, cleared>>

obsVars == <<emitted, rest, flushed, halted, cleared>>

detVars == <<built, oracle, reference>>

vars == <<variant, faulty, has_eos, tokenizer, logits_processor, kv, pc,
          prompt, sample_len, tokens, generated_tokens, pos, index,
          context_size, sink, pending, outcome, error, runs, forwards, offsets,
          entry, emitted, rest, flushed, halted, built, oracle, reference,
          repeat_penalty, repeat_last_n, logits, scores, lookups, windows,
          cleared, penalized, events, invoke_pc, received, response_text,
          returned, settings, load_pc, load_error>>

FailKinds == {"none", "first", "second"}

\* Whether a fallible call may return Ok / Err: where calls cannot fail, every
\* one returns Ok.
Oks == IF faulty THEN BOOLEAN ELSE {TRUE}

\* The seeds a generator is constructed with.
Seeds == {1, 2}

\* A sampler that is not started afresh from the seed: it goes on from where
\* the sampler of the run before it stopped.
LogitsProcessorShared(seed) == [seed |-> seed, draws |-> generated_tokens]

\* LogitsProcessor::new(seed, temp, top_p)
LogitsProcessorNew(seed) == [seed |-> seed, draws |-> 0]

\* The defaults of local_model_config: a factor of 1.1 over the last 64
\* tokens.
DefaultRepeatPenalty == 11
DefaultRepeatLastN == 64

\* No scores have been computed.
NoScores == <<>>

\* The penalty has not been called.
NotPenalized == [called |-> FALSE]

\* The calls of the run are not followed.
NotFollowed == <<"-">>

\* A run begins with the calls new, where they are followed.
Restart(log, new) == IF log = NotFollowed THEN log ELSE new

\* The calls new are made after those of log, where they are followed.
Log(log, new) == IF log = NotFollowed THEN log ELSE log \o new

\* No settings have been given to a backend.
NoSettings == [given |-> FALSE]

\* invoke has not returned.
NoResult == [kind |-> "none", text |-> <<>>, message |-> ""]

\* The backends have not been called.
NoBackend ==
    /\ invoke_pc = "Idle"
    /\ received = <<>>
    /\ response_text = <<>>
    /\ returned = NoResult
    /\ settings = NoSettings
    /\ load_pc = "Idle"
    /\ load_error = "none"

\* No run has been recorded for comparison.
NoReference == [valid |-> FALSE]

\* The state of a run that has not been called.
NoRun ==
    /\ pc = "Idle"
    /\ prompt = <<>>
    /\ sample_len = 0
    /\ tokens = <<>>
    /\ generated_tokens = 0
    /\ pos = 0
    /\ index = 0
    /\ context_size = 0
    /\ sink = <<>>
    /\ pending = <<>>
    /\ outcome = "None"
    /\ error = "none"
    /\ runs = 0
    /\ forwards = 0
    /\ offsets = <<>>
    /\ entry = NewStream
    /\ lookups = 0
    /\ windows = <<>>
    /\ logits = NoScores
    /\ scores = NoScores
    /\ penalized = NotPenalized
    /\ events \in {NotFollowed, <<>>}

\* TextGeneration::new: a generator of some variant over some vocabulary,
\* holding a new TokenOutputStream and a sampler seeded with seed; the model
\* has just been loaded.
Construct(seed) ==
    /\ tokenizer = NewStream
    /\ logits_processor = LogitsProcessorNew(seed)
    /\ kv = <<>>
    /\ emitted = <<>>
    /\ rest = <<>>
    /\ flushed = FALSE
    /\ halted = FALSE
    /\ cleared = FALSE

\* A generator that has just been constructed, whatever penalty it was given.
Built ==
    /\ variant \in Variants
    /\ faulty \in BOOLEAN
    /\ has_eos \in BOOLEAN
    /\ NoRun
    /\ Construct(1)
    /\ built = 1
    /\ oracle = {}
    /\ reference = NoReference
    /\ NoBackend

\* The generator the program builds when the settings file sets no penalty.
Init ==
    /\ Built
    /\ repeat_penalty = DefaultRepeatPenalty
    /\ repeat_last_n = DefaultRepeatLastN
    /\ events = NotFollowed

\* ------------------------------------------------------ TextGeneration::run
\* A lookup that finds the end of text token in every vocabulary.
get_tokenAlways(present) == {T_EOS}

\* self.tokenizer.get_token("<|endoftext|>")
get_token(present) == IF present THEN {T_EOS} ELSE {}

\* An emptiness test that lets every prompt through.
is_emptyNever(toks) == FALSE

\* tokens.is_empty()
is_empty(toks) == toks = <<>>

\* A context size that is the whole history at every step.
ContextSizeWhole(i, toks) == Len(toks)

\* "Get context size - full context for first iteration, single token after"
ContextSize(i, toks) == IF i > 0 THEN 1 ELSE Len(toks)

\* A window cut from the start of the history.
CtxtFromStart(toks, size) == Slice(toks, 0, size)

\* &tokens[tokens.len().saturating_sub(context_size)..]
Ctxt(toks, size) ==
    Slice(toks, IF Len(toks) >= size THEN Len(toks) - size ELSE 0, Len(toks))

\* A loop that runs index up to and including sample_len.
LoopContinuesInclusive(i, n) == i <= n

\* A loop that tests its bound only after the first iteration.
LoopContinuesAtLeastOnce(i, n) == i < n \/ i = 0

\* for index in 0..sample_len
LoopContinues(i, n) == i < n

\* An end of text check that takes the full stop for the stop token.
IsStopOther(next, eos) == next = T_DOT

\* An end of text check that never matches.
IsStopNever(next, eos) == FALSE

\* if next_token == eos_token
IsStop(next, eos) == next = eos

\* A position that advances by one token whatever the window was.
AdvancePosByOne(p, size) == p + 1

\* A position that is set to the size of the last window.
AdvancePosAssign(p, size) == size

\* pos += context_size
AdvancePos(p, size) == p + size

\* self.repeat_penalty == 1.
IsNoPenalty(factor) == factor = 10

\* The calls of one step that can return Err, in the order they are made:
\* building the input tensor, the forward pass, the penalty (which a
\* generator with a factor of 1 does not call), sampling, and the first and
\* second decode of the detokenizer call.
StepFaults ==
    IF faulty
    THEN {"none", "input", "forward", "sample", "first", "second"}
           \cup (IF IsNoPenalty(repeat_penalty) THEN {} ELSE {"penalty"})
    ELSE {"none"}

\* A conversion that yields no bytes.
as_bytesNothing(text) == <<>>

\* str::as_bytes: the UTF-8 bytes of the text, which the sink holds as the
\* characters they encode.
as_bytes(text) == text

\* An Err that leaves run where it was, to make the failed call again.
OnErrRetry(at) == at

\* The ? after a fallible call made at the place at: on Err, run returns it.
OnErr(at) == "Failed"

\* run returns Err or unwinds: its locals are gone.
DropLocals ==
    /\ tokens' = <<>>
    /\ generated_tokens' = 0
    /\ pos' = 0
    /\ index' = 0
    /\ context_size' = 0
    /\ pending' = <<>>

\* run is called: encode the prompt, reject an empty one, look up the end of
\* text token.  Everything up to the first write_all.
RunBegin ==
    /\ pc \in {"Idle", "Done", "Failed", "Cancelled"}
    /\ runs < MaxRuns
    /\ \E p \in Prompts, n \in 0..MaxSampleLen, encoded \in Oks :
         /\ Len(tokenizer.tokens) + n <= MaxTokens
         /\ prompt' = p
         /\ sample_len' = n
         /\ IF ~encoded
            THEN /\ pc' = "Failed"
                 /\ error' = "encode"
                 /\ tokens' = <<>>
                 /\ lookups' = 0
                 /\ events' = Restart(events, <<"encode">>)
            ELSE IF is_empty(Encode(p))
            THEN /\ pc' = "Failed"
                 /\ error' = "empty"
                 /\ tokens' = <<>>
                 /\ lookups' = 0
                 /\ events' = Restart(events, <<"encode">>)
            ELSE IF get_token(has_eos) = {}
            THEN /\ pc' = "Failed"
                 /\ error' = "vocab"
                 /\ tokens' = <<>>
                 /\ lookups' = 1
                 /\ events' = Restart(events, <<"encode", "get_token">>)
            ELSE /\ pc' = "WritePrompt"
                 /\ error' = "none"
                 /\ tokens' = Encode(p)
                 /\ lookups' = 1
                 /\ events' = Restart(events, <<"encode", "get_token">>)
    /\ runs' = runs + 1
    /\ generated_tokens' = 0
    /\ pos' = 0
    /\ index' = 0
    /\ context_size' = 0
    /\ sink' = <<>>
    /\ pending' = <<>>
    /\ outcome' = "None"
    /\ forwards' = 0
    /\ offsets' = <<>>
    /\ entry' = tokenizer
    /\ windows' = <<>>
    /\ logits' = NoScores
    /\ scores' = NoScores
    /\ penalized' = NotPenalized
    /\ UNCHANGED <<genVars, streamVars, detVars,
                   backendVars>>

\* stream.write_all(prompt.as_bytes()).await, then the loop is set up.
WritePrompt ==
    /\ pc = "WritePrompt"
    /\ events' = Log(events, <<"write_all">>)
    /\ \E ok \in Oks :
         IF ok
         THEN /\ sink' = as_bytes(prompt)
              /\ pc' = "Loop"
              /\ error' = error
              /\ UNCHANGED <<tokens, generated_tokens, pos, index,
                             context_size, pending>>
         ELSE /\ sink' = sink
              /\ pc' = OnErr(pc)
              /\ error' = "write"
              /\ DropLocals
    /\ UNCHANGED <<genVars, streamVars, detVars,
                   backendVars, prompt, sample_len, outcome,
                   runs, forwards, offsets, entry, lookups, windows,
                   scoreVars>>

\* stream.write_all(t.as_bytes()).await of a fragment next_token returned,
\* then the rest of the iteration.
WriteFrag ==
    /\ pc = "WriteFrag"
    /\ \E ok \in Oks :
         IF ok
         THEN /\ sink' = sink \o as_bytes(pending)
              /\ events' = Log(events, <<"write_all", "advance">>)
              /\ pos' = AdvancePos(pos, context_size)
              /\ index' = index + 1
              /\ pending' = <<>>
              /\ pc' = "Loop"
              /\ error' = error
              /\ UNCHANGED <<tokens, generated_tokens, context_size>>
         ELSE /\ sink' = sink
              /\ events' = Log(events, <<"write_all">>)
              /\ pc' = OnErr(pc)
              /\ error' = "write"
              /\ DropLocals
    /\ UNCHANGED <<genVars, streamVars, detVars,
                   backendVars, prompt, sample_len, outcome,
                   runs, forwards, offsets, entry, lookups, windows,
                   scoreVars>>

\* stream.write_all(t.as_bytes()).await of what decode_rest returned, then
\* break.
WriteRest ==
    /\ pc = "WriteRest"
    /\ events' = Log(events, <<"write_all">>)
    /\ \E ok \in Oks :
         IF ok
         THEN /\ sink' = sink \o as_bytes(pending)
              /\ pending' = <<>>
              /\ pc' = "Flush"
              /\ error' = error
              /\ UNCHANGED <<tokens, generated_tokens, pos, index,
                             context_size>>
         ELSE /\ sink' = sink
              /\ pc' = OnErr(pc)
              /\ error' = "write"
              /\ DropLocals
    /\ UNCHANGED <<genVars, streamVars, detVars,
                   backendVars, prompt, sample_len, outcome,
                   runs, forwards, offsets, entry, lookups, windows,
                   scoreVars>>

\* A flush whose result is not looked at: run returns Ok whatever it was.
FlushUnchecked ==
    /\ \/ pc = "Flush"
       \/ pc = "Loop" /\ ~LoopContinues(index, sample_len)
    /\ outcome' = IF pc = "Loop" THEN "Exhausted" ELSE outcome
    /\ events' = Log(events, <<"flush">>)
    /\ pc' = "Done"
    /\ \E ok \in Oks : error' = IF ok THEN error ELSE "flush"
    /\ UNCHANGED <<genVars, streamVars, detVars,
                   backendVars, prompt, sample_len, sink,
                   tokens, generated_tokens, pos, index, context_size,
                   pending, runs, forwards, offsets, entry, lookups, windows,
                   scoreVars>>

\* The loop is left (by break, or because index reached sample_len) and
\* stream.flush().await is made; run returns.
Flush ==
    /\ \/ pc = "Flush"
       \/ pc = "Loop" /\ ~LoopContinues(index, sample_len)
    /\ outcome' = IF pc = "Loop" THEN "Exhausted" ELSE outcome
    /\ events' = Log(events, <<"flush">>)
    /\ \E ok \in Oks :
         IF ok
         THEN /\ pc' = "Done"
              /\ error' = error
              /\ UNCHANGED <<tokens, generated_tokens, pos, index,
                             context_size, pending>>
         ELSE /\ pc' = OnErr(pc)
              /\ error' = "flush"
              /\ DropLocals
    /\ UNCHANGED <<genVars, streamVars, detVars,
                   backendVars, prompt, sample_len, sink,
                   runs, forwards, offsets, entry, lookups, windows,
                   scoreVars>>

\* The places where run awaits: the write_all of the prompt, of a fragment
\* and of the remainder, and the flush.
AtAwait ==
    \/ pc \in {"WritePrompt", "WriteFrag", "WriteRest", "Flush"}
    \/ pc = "Loop" /\ ~LoopContinues(index, sample_len)

\* The caller drops the future run returned while it is suspended in an
\* await: run goes no further, its locals are gone, the generator and what the
\* sink has received stay as they are.
Cancel ==
    /\ AtAwait
    /\ pc' = "Cancelled"
    /\ DropLocals
    /\ UNCHANGED <<genVars, streamVars, detVars,
                   backendVars, prompt, sample_len, sink,
                   outcome, error, runs, forwards, offsets, entry, lookups,
                   windows, events, scoreVars>>

\* The beginning of log up to and including its first entry name (all of it
\* when name does not occur).
RECURSIVE UpTo(_, _)
UpTo(log, name) ==
    IF log = <<>> THEN <<>>
    ELSE IF Head(log) = name THEN <<name>>
    ELSE <<Head(log)>> \o UpTo(Tail(log), name)

\* An iteration that pushes and hands the token to the detokenizer before the
\* forward pass and the sampling.
StepEventsPushFirst(next, fault) ==
    <<"window", "push", "check", "next_token", "input", "forward", "sample">>

\* The calls one iteration makes up to its write_all, in the order the loop
\* body makes them, the one that returns Err being the last.
StepEvents(next, fault) ==
    LET stop == IsStop(next, T_EOS)
        r    == IF stop
                THEN decode_rest(tokenizer, fault)
                ELSE next_token(tokenizer, next, fault)
        body == <<"window", "input", "forward">>
                  \o (IF IsNoPenalty(repeat_penalty) THEN <<>>
                                                     ELSE <<"penalty">>)
                  \o <<"sample", "push", "check">>
                  \o (IF stop THEN <<"decode_rest">> ELSE <<"next_token">>)
                  \o (IF r.kind = "none" /\ ~stop THEN <<"advance">>
                                                   ELSE <<>>)
    IN  IF fault \in {"input", "forward", "penalty", "sample"}
        THEN UpTo(body, fault)
        ELSE body

\* A history that keeps the end-of-text token out.
pushUnlessStop(toks, next) ==
    IF next = T_EOS THEN toks ELSE Append(toks, next)

\* tokens.push(next_token)
push(toks, next) == Append(toks, next)

\* One iteration of the loop up to its write_all, with next the token the
\* sampler returns and fault the call that returns Err: window, forward pass,
\* sampling, push, end-of-text check, detokenizer call, and, when nothing is
\* to be written, the position advance.
StepWith(next, fault) ==
    LET size      == ContextSize(index, tokens)
        called    == fault # "input"
        sampled   == fault \notin {"input", "forward", "penalty", "sample"}
        stop      == IsStop(next, T_EOS)
        r         == IF stop
                     THEN decode_rest(tokenizer, fault)
                     ELSE next_token(tokenizer, next, fault)
        kind      == IF sampled THEN r.kind ELSE "err"
        goes_on   == kind \in {"some", "none"}
    IN
    /\ forwards' = IF called THEN forwards + 1 ELSE forwards
    /\ offsets' = IF called /\ variant = "Phi3"
                  THEN Append(offsets, pos) ELSE offsets
    /\ windows' = IF called
                  THEN Append(windows, Ctxt(tokens, size)) ELSE windows
    /\ tokenizer' = IF sampled /\ ~stop THEN r.stream ELSE tokenizer
    /\ pc' = CASE kind = "err"   -> OnErr(pc)
               [] kind = "panic" -> "Panicked"
               [] kind = "some"  -> IF stop THEN "WriteRest" ELSE "WriteFrag"
               [] kind = "none"  -> IF stop THEN "Flush" ELSE "Loop"
    /\ error' = IF kind = "err"
                THEN (IF sampled THEN "decode" ELSE fault)
                ELSE error
    /\ outcome' = IF stop /\ goes_on THEN "Stopped" ELSE outcome
    /\ events' = Log(events, StepEvents(next, fault))
    /\ IF goes_on
       THEN /\ tokens' = push(tokens, next)
            /\ generated_tokens' = generated_tokens + 1
            /\ context_size' = size
            /\ pending' = r.frag
            /\ pos' = IF kind = "none" /\ ~stop
                      THEN AdvancePos(pos, size) ELSE pos
            /\ index' = IF kind = "none" /\ ~stop THEN index + 1 ELSE index
       ELSE DropLocals
    /\ UNCHANGED <<variant, faulty, has_eos, repeat_penalty, repeat_last_n,
                   prompt, sample_len, sink, runs, entry, lookups, obsVars,
                   built, reference, backendVars>>

\* A step of a run whose model and sampler may yield any token: what the
\* model has been fed and how far the sampler has drawn decide nothing here
\* and are not followed.
Step ==
    /\ pc = "Loop"
    /\ LoopContinues(index, sample_len)
    /\ \E next \in Token, fault \in StepFaults : StepWith(next, fault)
    /\ UNCHANGED <<logits_processor, kv, oracle, scoreVars>>

Next ==
    \/ RunBegin
    \/ WritePrompt
    \/ Step
    \/ WriteFrag
    \/ WriteRest
    \/ Flush

Spec == Init /\ [][Next]_vars

\* ------------------------------------------------- runs that may be dropped
CancelNext == Next \/ Cancel

CancelSpec == Init /\ [][CancelNext]_vars

\* ------------------------------------------- a run whose scores are followed
\* The score vectors the model returns, one score per token, in thousandths.
LogitVectors ==
    { [t \in Token |-> 220],
      [t \in Token |-> IF t \in {T_A, T_EOS} THEN -220 ELSE 0],
      [t \in Token |-> IF t = T_SPB THEN 220 ELSE -220] }

\* The penalty factors (1.0, 1.1, 2.0) and windows a generator is given.
Penalties == {10, DefaultRepeatPenalty, 20}

LastNs == {0, 1, 2, DefaultRepeatLastN}

\* candle_transformers::utils::apply_repeat_penalty: the score of every token
\* that occurs in context is divided by the factor when it is not negative
\* and multiplied by it when it is.
apply_repeat_penalty(lg, penalty, context) ==
    [t \in DOMAIN lg |->
       IF \E k \in 1..Len(context) : context[k] = t
       THEN IF lg[t] >= 0 THEN (lg[t] * 10) \div penalty
                          ELSE (lg[t] * penalty) \div 10
       ELSE lg[t]]

\* A penalty context cut from the start of the history.
PenaltyContextFromStart(toks, last_n) ==
    Slice(toks, 0, IF Len(toks) >= last_n THEN last_n ELSE Len(toks))

\* &tokens[start_at..] with start_at = tokens.len().saturating_sub(last_n)
PenaltyContext(toks, last_n) ==
    Slice(toks, IF Len(toks) >= last_n THEN Len(toks) - last_n ELSE 0,
          Len(toks))

\* A penalty stage that takes the factor off the score of every token of the
\* context, whatever the factor is.
PenalizeSubtract(lg, factor, last_n, toks) ==
    [t \in DOMAIN lg |->
       IF \E k \in 1..Len(toks) : toks[k] = t THEN lg[t] - factor ELSE lg[t]]

\* "Apply repeat penalty if configured"
Penalize(lg, factor, last_n, toks) ==
    IF IsNoPenalty(factor)
    THEN lg
    ELSE apply_repeat_penalty(lg, factor, PenaltyContext(toks, last_n))

\* A step of a run whose model returns some score vector: the scores and what
\* the penalty stage makes of them are followed, the sampler may still draw
\* any token from them.
ScoreStep ==
    /\ pc = "Loop"
    /\ LoopContinues(index, sample_len)
    /\ \E next \in Token, fault \in StepFaults, lg \in LogitVectors :
         LET forwarded == fault \notin {"input", "forward"}
             passed    == forwarded /\ fault # "penalty"
         IN  /\ StepWith(next, fault)
             /\ logits' = IF forwarded THEN lg ELSE NoScores
             /\ scores' = IF passed
                          THEN Penalize(lg, repeat_penalty, repeat_last_n,
                                        tokens)
                          ELSE NoScores
             /\ penalized' =
                  IF forwarded /\ ~IsNoPenalty(repeat_penalty)
                  THEN [called |-> TRUE,
                        context |-> PenaltyContext(tokens, repeat_last_n)]
                  ELSE NotPenalized
    /\ UNCHANGED <<logits_processor, kv, oracle>>

\* The one run made on the generator.
ScoreRunBegin ==
    /\ runs = 0
    /\ RunBegin

\* A generator of the variant that takes the position, over a vocabulary
\* with the end of text token, given any penalty factor and window.
ScoreInit ==
    /\ Built
    /\ variant = "Phi3"
    /\ has_eos
    /\ repeat_penalty \in Penalties
    /\ repeat_last_n \in LastNs
    /\ events = <<>>

ScoreNext ==
    \/ ScoreRunBegin
    \/ WritePrompt
    \/ ScoreStep
    \/ WriteFrag
    \/ WriteRest
    \/ Flush

ScoreSpec == ScoreInit /\ [][ScoreNext]_vars

\* ------------------------------------------- two generators, one after one
\* What decides the token a step samples: the sampler's seed and how many
\* draws it has made, every token the model has been fed (its cache and the
\* window of this pass) and, for the variant that takes it, the position.
SampleKey(lp, seen, p) ==
    [seed |-> lp.seed, draws |-> lp.draws, seen |-> seen,
     pos |-> IF variant = "Phi3" THEN p ELSE 0]

\* The model and the sampler are functions: a key that has yielded a token
\* yields that token again.
Yields(key, t) == \A e \in oracle : e.key = key => e.token = t

\* A step of a run whose model and sampler are fixed functions of what they
\* are given.
DetStep ==
    /\ pc = "Loop"
    /\ LoopContinues(index, sample_len)
    /\ \E next \in Token, fault \in StepFaults :
         LET ctxt      == Ctxt(tokens, ContextSize(index, tokens))
             forwarded == fault \notin {"input", "forward"}
             sampled   == fault \notin {"input", "forward", "penalty",
                                          "sample"}
             key       == SampleKey(logits_processor, kv \o ctxt, pos)
         IN  /\ sampled => Yields(key, next)
             /\ StepWith(next, fault)
             /\ kv' = IF forwarded THEN kv \o ctxt ELSE kv
             /\ logits_processor' =
                  IF sampled
                  THEN [logits_processor EXCEPT !.draws = @ + 1]
                  ELSE logits_processor
             /\ oracle' = IF sampled
                          THEN oracle \cup {[key |-> key, token |-> next]}
                          ELSE oracle
    /\ UNCHANGED scoreVars

\* The one run made on a generator.
DetRunBegin ==
    /\ runs = 0
    /\ RunBegin
    /\ sample_len' <= MaxDetSampleLen

\* The generator's run has returned Ok; what it wrote is kept, the generator
\* is dropped and TextGeneration::new builds another over the same model file
\* and vocabulary, with some seed.
NewGenerator ==
    /\ pc = "Done"
    /\ ~reference.valid
    /\ reference' = [valid |-> TRUE, seed |-> logits_processor.seed,
                     prompt |-> prompt, sample_len |-> sample_len,
                     sink |-> sink, generated |-> generated_tokens]
    /\ built' = built + 1
    /\ \E seed \in Seeds : logits_processor' = LogitsProcessorNew(seed)
    /\ tokenizer' = NewStream
    /\ kv' = <<>>
    /\ emitted' = <<>>
    /\ rest' = <<>>
    /\ flushed' = FALSE
    /\ halted' = FALSE
    /\ pc' = "Idle"
    /\ prompt' = <<>>
    /\ sample_len' = 0
    /\ tokens' = <<>>
    /\ generated_tokens' = 0
    /\ pos' = 0
    /\ index' = 0
    /\ context_size' = 0
    /\ sink' = <<>>
    /\ pending' = <<>>
    /\ outcome' = "None"
    /\ error' = "none"
    /\ runs' = 0
    /\ forwards' = 0
    /\ offsets' = <<>>
    /\ entry' = NewStream
    /\ lookups' = 0
    /\ windows' = <<>>
    /\ logits' = NoScores
    /\ scores' = NoScores
    /\ cleared' = FALSE
    /\ UNCHANGED <<variant, faulty, has_eos, repeat_penalty, repeat_last_n,
                   oracle, penalized, events, backendVars>>

\* Every call returns Ok and the vocabulary has the end of text token.
DetInit ==
    /\ Init
    /\ ~faulty
    /\ has_eos

DetNext ==
    \/ DetRunBegin
    \/ WritePrompt
    \/ DetStep
    \/ WriteFrag
    \/ WriteRest
    \/ Flush
    \/ NewGenerator

DetSpec == DetInit /\ [][DetNext]_vars

\* --------------------------------------------- a stream driven on its own
StreamInit ==
    /\ Init
    /\ variant = "Phi"
    /\ faulty
    /\ has_eos

\* A caller feeds one token.
CallNextToken ==
    /\ ~halted
    /\ Len(tokenizer.tokens) < MaxTokens
    /\ \E token \in Token, fail \in FailKinds :
         LET r == next_token(tokenizer, token, fail)
         IN  /\ tokenizer' = r.stream
             /\ emitted' = emitted \o r.frag
             /\ halted' = (r.kind \in {"err", "panic"})
    /\ flushed' = FALSE
    /\ rest' = <<>>
    /\ UNCHANGED <<cleared, genVars, runVars, scoreVars, detVars,
                   backendVars>>

\* A caller asks for the remainder.
CallDecodeRest ==
    /\ ~halted
    /\ \E fail \in FailKinds :
         LET r == decode_rest(tokenizer, fail)
         IN  /\ rest' = r.frag
             /\ halted' = (r.kind \in {"err", "panic"})
             /\ flushed' = (r.kind \in {"some", "none"})
    /\ UNCHANGED <<tokenizer, emitted, cleared, genVars, runVars, scoreVars,
                   detVars,
                   backendVars>>

\* A caller resets the stream.
CallClear ==
    /\ tokenizer' = clear(tokenizer)
    /\ emitted' = <<>>
    /\ rest' = <<>>
    /\ flushed' = FALSE
    /\ halted' = FALSE
    /\ cleared' = TRUE
    /\ UNCHANGED <<genVars, runVars, scoreVars, detVars,
                   backendVars>>

StreamNext == CallNextToken \/ CallDecodeRest \/ CallClear

StreamSpec == StreamInit /\ [][StreamNext]_vars

\* ----------------------------------------------------------------- claims
\* Number of prompt tokens of the current run.
P == Len(Encode(prompt))

\* The tokens the current run has sampled, and those that are not the stop
\* token.
Generated == SubSeq(tokens, P + 1, Len(tokens))

NotStop(t) == t # T_EOS

NonStop(toks) == SelectSeq(toks, NotStop)

\* C1: when tokens have been fed to the stream one at a time through
\* next_token and decode_rest is then called once, the fragments next_token
\* returned followed by what decode_rest returned are exactly the decode of
\* the whole token sequence: nothing is emitted twice, nothing is lost.
C1_FragmentsConcatToFullDecode ==
    flushed => emitted \o rest = decode_all(tokenizer)

\* C1 witness: a flush after several emissions that still had text to return,
\* with the stream's window already moved off the start.
C1_Witness ==
    /\ flushed
    /\ rest # <<>>
    /\ emitted # <<>>
    /\ tokenizer.prev_index > 0

\* C2: after any sequence of new, next_token, decode_rest and clear calls,
\* 0 <= prev_index <= current_index <= len(tokens).
C2_IndexOrder ==
    /\ 0 <= tokenizer.prev_index
    /\ tokenizer.prev_index <= tokenizer.current_index
    /\ tokenizer.current_index <= Len(tokenizer.tokens)

\* C2 witness: all three inequalities strict at once.
C2_Witness ==
    /\ 0 < tokenizer.prev_index
    /\ tokenizer.prev_index < tokenizer.current_index
    /\ tokenizer.current_index < Len(tokenizer.tokens)

\* C3: when a first run on a generator returns Ok, by stop token or by
\* exhausting sample_len, the sink holds the prompt followed by every character
\* of the decode of the generated non-stop tokens.
C3_RemainderWrittenOnSuccess ==
    (pc = "Done" /\ runs = 1) =>
        sink = prompt \o Decode(NonStop(Generated))

\* C4: the position handed to the model is 0 at step 0 and P + i - 1 at every
\* step i >= 1; between steps pos has advanced by the window sizes used so far.
C4_PositionOffset ==
    /\ \A k \in 1..Len(offsets) :
         offsets[k] = IF k = 1 THEN 0 ELSE P + (k - 1) - 1
    /\ variant = "Phi3" => Len(offsets) = forwards
    /\ pc = "Loop" =>
         /\ forwards = index
         /\ pos = IF index = 0 THEN 0 ELSE P + index - 1

\* C4 witness: a Phi3 run over a two-token prompt that made three passes.
C4_Witness ==
    /\ variant = "Phi3"
    /\ P = 2
    /\ offsets = <<0, 2, 3>>

\* C5 as stated: a 3-token prompt and 2 generated tokens record [0, 3, 4].
C5_Original ==
    (variant = "Phi3" /\ pc = "Done" /\ P = 3 /\ generated_tokens = 2) =>
        offsets = <<0, 3, 4>>

\* C5 amended: a Phi3 run with a 3-token prompt that generates 2 tokens
\* records exactly [0, 3]; [0, 3, 4] is what a run generating 3 tokens records.
C5_OffsetsScenario ==
    (variant = "Phi3" /\ pc = "Done" /\ P = 3) =>
        /\ generated_tokens = 2 => offsets = <<0, 3>>
        /\ generated_tokens = 3 => offsets = <<0, 3, 4>>

\* C5 witness: the scenario itself has completed.
C5_Witness ==
    /\ variant = "Phi3"
    /\ pc = "Done"
    /\ P = 3
    /\ generated_tokens = 2
    /\ outcome = "Exhausted"

\* C6: when the first sampled token is the stop token, exactly one token is
\* generated by one forward pass, the run goes on only to the final write and
\* flush, the stop token never reaches the detokenizer, and what a successful
\* run has written is the prompt followed only by what decode_rest returned
\* for the stream as the run found it (nothing on a new generator).
C6_StopTokenFirst ==
    (P > 0 /\ Len(tokens) > P /\ tokens[P + 1] = T_EOS) =>
        /\ generated_tokens = 1
        /\ forwards = 1
        /\ Len(tokens) = P + 1
        /\ tokenizer = entry
        /\ pc \in {"WriteRest", "Flush", "Done", "Failed", "Panicked"}
        /\ pc = "Done" =>
             /\ outcome = "Stopped"
             /\ sink = prompt \o decode_rest(entry, "none").frag
             /\ runs = 1 => sink = prompt

\* C6 witness: such a run returned Ok with budget left.
C6_Witness ==
    /\ pc = "Done"
    /\ P > 0
    /\ Len(tokens) > P
    /\ tokens[P + 1] = T_EOS
    /\ sample_len = MaxSampleLen

\* C7: a run that never samples the stop token and returns Ok has made exactly
\* sample_len steps, left the loop by exhaustion and counted sample_len
\* generated tokens.
C7_Exhaustion ==
    (pc = "Done" /\ \A k \in 1..Len(Generated) : Generated[k] # T_EOS) =>
        /\ outcome = "Exhausted"
        /\ generated_tokens = sample_len
        /\ forwards = sample_len
        /\ index = sample_len
        /\ Len(Generated) = sample_len

\* C7 witness: an exhausted run with the largest budget.
C7_Witness ==
    /\ pc = "Done"
    /\ outcome = "Exhausted"
    /\ sample_len = MaxSampleLen
    /\ generated_tokens = MaxSampleLen

\* C8: a run with sample_len = 0 over a non-empty prompt makes no forward pass,
\* generates nothing, leaves the detokenizer alone and, when it returns Ok, has
\* written the prompt text and nothing else.
C8_ZeroBudget ==
    (runs >= 1 /\ sample_len = 0) =>
        /\ forwards = 0
        /\ generated_tokens = 0
        /\ tokenizer = entry
        /\ sink \in {<<>>, prompt}
        /\ pc = "Done" => (sink = prompt /\ P > 0 /\ outcome = "Exhausted")

\* C8 witness: such a run returned Ok.
C8_Witness ==
    /\ pc = "Done"
    /\ sample_len = 0
    /\ sink = prompt
    /\ Len(prompt) > 1

\* C9: two runs, each on a generator of its own built over the same model with
\* the same seed, given the same prompt and the same sample_len, have written
\* the same text and generated the same number of tokens when they return Ok.
C9_Determinism ==
    ( /\ reference.valid
      /\ pc = "Done"
      /\ reference.seed = logits_processor.seed
      /\ reference.prompt = prompt
      /\ reference.sample_len = sample_len ) =>
        /\ sink = reference.sink
        /\ generated_tokens = reference.generated

\* C9 witness: the second of two such runs has returned after two sampled
\* tokens, the second of which came out as text.
C9_Witness ==
    /\ reference.valid
    /\ pc = "Done"
    /\ reference.seed = logits_processor.seed
    /\ reference.prompt = prompt
    /\ reference.sample_len = sample_len
    /\ generated_tokens = 2
    /\ Len(sink) > Len(prompt)

\* C10: every run on a generator, the second included, finds the detokenizer
\* with an empty history and both cursors at 0.
C10_RunStartsWithEmptyStream ==
    (~faulty /\ runs >= 2 /\ pc = "WritePrompt") =>
        entry = NewStream

\* C11: a run whose prompt encodes to no tokens returns the empty-prompt error
\* (unless the encode call itself failed), having made no forward pass, no
\* stop token lookup and no detokenizer call, and having written nothing.
C11_EmptyPromptRejected ==
    (runs >= 1 /\ Encode(prompt) = <<>>) =>
        /\ pc = "Failed"
        /\ error \in {"encode", "empty"}
        /\ ~faulty => error = "empty"
        /\ forwards = 0
        /\ windows = <<>>
        /\ lookups = 0
        /\ sink = <<>>
        /\ tokenizer = entry

\* C11 witness: the last run a generator is given was rejected for its prompt.
C11_Witness ==
    /\ runs = MaxRuns
    /\ pc = "Failed"
    /\ error = "empty"
    /\ Encode(prompt) = <<>>

\* C12: over a vocabulary with no end of text entry every run returns Err, the
\* vocabulary-lookup error when the prompt encoded to something, and it has
\* made no forward pass and written nothing, not even the prompt; in every
\* run the lookup is made at most once, and once before the prompt is written
\* and before any forward pass.
C12_MissingStopTokenRejected ==
    /\ (runs >= 1 /\ ~has_eos) =>
         /\ pc = "Failed"
         /\ error \in {"encode", "empty", "vocab"}
         /\ (Encode(prompt) # <<>> /\ ~faulty) => error = "vocab"
         /\ forwards = 0
         /\ windows = <<>>
         /\ sink = <<>>
         /\ tokenizer = entry
    /\ lookups \in {0, 1}
    /\ error = "vocab" => lookups = 1
    /\ (forwards > 0 \/ sink # <<>>) => lookups = 1
    /\ pc \in {"WritePrompt", "Loop", "WriteFrag", "WriteRest", "Flush",
               "Done"} => lookups = 1

\* C12 witness: a run over such a vocabulary failed at the lookup.
C12_Witness ==
    /\ ~has_eos
    /\ pc = "Failed"
    /\ error = "vocab"
    /\ lookups = 1
    /\ Encode(prompt) # <<>>

\* C13: when a call of a step or a write returns Err (the input tensor, the
\* forward pass, the penalty, the sampler, a decode of the detokenizer,
\* write_all, flush), run returns Err with that very step: what the sink has
\* received stays as it is, at most the one forward pass that was under way
\* has been made, and nothing follows in this run: no retry, no forward pass,
\* no sample, no write, no Ok.  Only a new call of run comes after.
C13_ErrorsAbortTheRun ==
    [][ /\ (runs' = runs /\ error' # error) =>
             /\ error = "none"
             /\ error' \in {"input", "forward", "penalty", "sample", "decode",
                            "write", "flush"}
             /\ pc' = "Failed"
             /\ sink' = sink
             /\ forwards' \in {forwards, forwards + 1}
             /\ error' \in {"write", "flush"} =>
                  (forwards' = forwards /\ tokenizer' = tokenizer)
        /\ pc = "Failed" =>
             /\ runs' = runs + 1
             /\ pc' \in {"Failed", "WritePrompt"}
      ]_vars

\* C13 witness: the penalty failed in a step that came after a step whose
\* fragment had been written.
C13_Witness ==
    /\ pc = "Failed"
    /\ error = "penalty"
    /\ forwards = 2
    /\ Len(sink) > Len(prompt)

\* C14: at every place where run can be suspended, and so dropped by its
\* caller, no step is half-done: the history holds the prompt and one token
\* per completed step, the detokenizer has taken in one token per completed
\* step, and the position has advanced over all of them.  (The awaits after the
\* stop token, where no step is to come, are left out.)
C14_NoAwaitInsideAStep ==
    (AtAwait /\ outcome # "Stopped") =>
        /\ Len(tokens) = P + index
        /\ Len(tokenizer.tokens) = Len(entry.tokens) + index
        /\ pos = IF index = 0 THEN 0 ELSE P + index - 1

\* A new stream fed toks one at a time through next_token, no call failing:
\* the stream afterwards and every fragment the calls returned.
RECURSIVE Replay(_)
Replay(toks) ==
    IF toks = <<>>
    THEN [stream |-> NewStream, emitted |-> <<>>]
    ELSE LET before == Replay(SubSeq(toks, 1, Len(toks) - 1))
             r      == next_token(before.stream, toks[Len(toks)], "none")
         IN  [stream |-> r.stream, emitted |-> before.emitted \o r.frag]

\* C15: clear leaves an empty history and both indices at 0, which is the
\* state new constructs; and a stream that has been cleared, whatever it had
\* been through before, has since then returned from next_token and
\* decode_rest exactly what a newly constructed stream returns for the same
\* tokens, and is in the state that stream is in.
C15_ClearIsNew ==
    /\ clear(tokenizer) = [tokens |-> <<>>, prev_index |-> 0,
                           current_index |-> 0]
    /\ clear(tokenizer) = NewStream
    /\ (cleared /\ ~halted) =>
         LET fresh == Replay(tokenizer.tokens)
         IN  /\ tokenizer = fresh.stream
             /\ emitted = fresh.emitted
             /\ flushed => rest = decode_rest(fresh.stream, "none").frag

\* C15 witness: a stream that was cleared after it had taken tokens in and
\* failed, and has since emitted a fragment, moved its window off the start
\* and returned a remainder.
C15_Witness ==
    /\ cleared
    /\ ~halted
    /\ flushed
    /\ rest # <<>>
    /\ emitted # <<>>
    /\ tokenizer.prev_index > 0
    /\ tokenizer.current_index < Len(tokenizer.tokens)

\* C16: a generator whose penalty factor is 1 hands the sampler, at every
\* step, the very scores the model returned, whatever the history and the
\* penalty window are.
C16_FactorOneIsIdentity ==
    (repeat_penalty = 10 /\ logits # NoScores) => scores = logits

\* C16 witness: the second step of such a generator's run, at which a factor
\* of 2 over the same window would have changed the scores.
C16_Witness ==
    /\ repeat_penalty = 10
    /\ forwards = 2
    /\ pc \in {"Loop", "WriteFrag"}
    /\ logits # NoScores
    /\ scores # NoScores
    /\ apply_repeat_penalty(
           logits, 20,
           PenaltyContext(SubSeq(tokens, 1, Len(tokens) - 1), repeat_last_n))
         # logits

\* a is the beginning of b.
IsPrefix(a, b) == Len(a) <= Len(b) /\ SubSeq(b, 1, Len(a)) = a

\* a occurs in b as a run of consecutive characters.
IsPiece(a, b) ==
    \E i \in 0..(Len(b) - Len(a)) : SubSeq(b, i + 1, i + Len(a)) = a

\* What the sink holds after the prompt.
AfterPrompt == SubSeq(sink, Len(prompt) + 1, Len(sink))

\* C17: in every run the sink is empty until the prompt is written and holds
\* the prompt, once, at its start from before the first forward pass on; the
\* detokenizer is given the generated tokens and never a prompt token; what
\* follows the prompt in the sink is text of the generated tokens the
\* detokenizer holds, and on a generator whose detokenizer was empty when the
\* run began it is the beginning of the decode of this run's generated tokens,
\* and all of it when the run returns Ok after the stop token.
C17_PromptThenGeneratedText ==
    /\ pc = "WritePrompt" => (sink = <<>> /\ forwards = 0)
    /\ (forwards > 0 \/ sink # <<>>) => IsPrefix(prompt, sink)
    /\ pc \in {"Loop", "WriteFrag", "WriteRest", "Flush", "Done"} =>
         /\ tokenizer.tokens = entry.tokens \o NonStop(Generated)
         /\ IsPiece(AfterPrompt, Decode(tokenizer.tokens))
         /\ entry.tokens = <<>> =>
              IsPrefix(AfterPrompt, Decode(NonStop(Generated)))
         /\ (entry.tokens = <<>> /\ pc = "Done" /\ outcome = "Stopped") =>
              sink = prompt \o Decode(NonStop(Generated))

\* C17 witness: a run returned Ok after the stop token, having written two
\* fragments after a prompt of several characters.
C17_Witness ==
    /\ pc = "Done"
    /\ outcome = "Stopped"
    /\ Len(prompt) > 1
    /\ entry.tokens = <<>>
    /\ generated_tokens = 3
    /\ Len(AfterPrompt) >= 2

\* C18: a next_token(t) call that returns Ok appends t to the history; with
\* text the decode of the new history from prev_index and prev_text the decode
\* of the old history from prev_index to current_index, it returns a fragment,
\* and a non-empty one, exactly when text is longer than prev_text and ends in
\* an alphanumeric character; then prev_index is the old current_index,
\* current_index the new length of the history and the fragment the end of text
\* beyond the length of prev_text; otherwise both indices stay as they were.
C18_NextTokenContract ==
    [][ (Len(tokenizer'.tokens) = Len(tokenizer.tokens) + 1 /\ ~halted') =>
          LET s1        == tokenizer'
              text      == Decode(SubSeq(s1.tokens, tokenizer.prev_index + 1,
                                         Len(s1.tokens)))
              prev_text == Decode(SubSeq(tokenizer.tokens,
                                         tokenizer.prev_index + 1,
                                         tokenizer.current_index))
              word      == /\ ByteLen(text) > ByteLen(prev_text)
                           /\ IsAlphanumeric(text[Len(text)])
              frag      == SubSeq(emitted', Len(emitted) + 1, Len(emitted'))
          IN  /\ SubSeq(s1.tokens, 1, Len(tokenizer.tokens)) = tokenizer.tokens
              /\ IsPrefix(emitted, emitted')
              /\ (frag # <<>>) <=> word
              /\ word =>
                   /\ s1.prev_index = tokenizer.current_index
                   /\ s1.current_index = Len(s1.tokens)
                   /\ ByteLen(frag) = ByteLen(text) - ByteLen(prev_text)
                   /\ frag = SubSeq(text, Len(text) - Len(frag) + 1, Len(text))
              /\ ~word =>
                   /\ s1.prev_index = tokenizer.prev_index
                   /\ s1.current_index = tokenizer.current_index
      ]_vars

\* C18 witness: a stream never cleared that has emitted two fragments and then
\* withheld a token.
C18_Witness ==
    /\ ~cleared
    /\ ~halted
    /\ ~flushed
    /\ Len(emitted) >= 2
    /\ tokenizer.prev_index > 0
    /\ tokenizer.current_index < Len(tokenizer.tokens)

\* C19: a decode_rest call that returns Ok leaves the history and both indices
\* as they were and returns, with text the decode of the history from
\* prev_index and prev_text the decode of the history from prev_index to
\* current_index, the end of text beyond the length of prev_text when text is
\* the longer, and nothing otherwise; a second call straight after the first
\* returns what the first returned.
C19_DecodeRestContract ==
    [][ flushed' =>
          LET text      == Decode(SubSeq(tokenizer.tokens,
                                         tokenizer.prev_index + 1,
                                         Len(tokenizer.tokens)))
              prev_text == Decode(SubSeq(tokenizer.tokens,
                                         tokenizer.prev_index + 1,
                                         tokenizer.current_index))
              more      == ByteLen(text) - ByteLen(prev_text)
          IN  /\ tokenizer' = tokenizer
              /\ emitted' = emitted
              /\ more > 0 =>
                   /\ rest' # <<>>
                   /\ ByteLen(rest') = more
                   /\ rest' = SubSeq(text, Len(text) - Len(rest') + 1,
                                     Len(text))
              /\ more <= 0 => rest' = <<>>
              /\ flushed => rest' = rest
              /\ rest' = decode_rest(tokenizer', "none").frag
      ]_vars

\* C19 witness: a stream never cleared whose window had moved and which
\* returned a remainder of several characters.
C19_Witness ==
    /\ ~cleared
    /\ flushed
    /\ Len(rest) >= 2
    /\ tokenizer.current_index > 0

\* C20: the model is given one window per forward pass; the first is the
\* entire history, which is then the prompt's tokens; every later one is the
\* single token the step before it appended to the history and gave to the
\* detokenizer.
C20_WindowPerStep ==
    /\ Len(windows) = forwards
    /\ windows # <<>> => windows[1] = Encode(prompt)
    /\ \A k \in 2..Len(windows) :
         /\ Len(windows[k]) = 1
         /\ windows[k] = <<tokenizer.tokens[Len(entry.tokens) + k - 1]>>
         /\ tokens # <<>> => windows[k] = <<tokens[P + k - 1]>>

\* C20 witness: a run over a three-token prompt returned Ok after three
\* passes whose single-token windows differ.
C20_Witness ==
    /\ pc = "Done"
    /\ Len(windows) = 3
    /\ Len(windows[1]) = 3
    /\ windows[2] # windows[3]

\* How often name occurs in log, and what follows its last occurrence.
RECURSIVE Count(_, _)
Count(log, name) ==
    IF log = <<>> THEN 0
    ELSE (IF Head(log) = name THEN 1 ELSE 0) + Count(Tail(log), name)

RECURSIVE After(_, _)
After(log, name) ==
    IF Count(log, name) = 0 THEN log ELSE After(Tail(log), name)

\* C21: the stop token never reaches the detokenizer's next_token; the step
\* that samples it appends it to the history and counts it, makes one
\* decode_rest call and no next_token call, and the run then makes only the
\* write_all of the fragment decode_rest returned, when it returned one, and
\* the flush: no forward pass, no sample and no detokenizer call follows.
C21_StopTokenStep ==
    /\ \A k \in 1..Len(tokenizer.tokens) : tokenizer.tokens[k] # T_EOS
    /\ Count(events, "decode_rest") <= 1
    /\ (Len(tokens) > P /\ tokens[Len(tokens)] = T_EOS) =>
         outcome = "Stopped"
    /\ outcome = "Stopped" =>
         LET frag  == decode_rest(tokenizer, "none").frag
             tail  == After(events, "sample")
             calls == <<"push", "check", "decode_rest">>
                        \o (IF frag # <<>> THEN <<"write_all">> ELSE <<>>)
                        \o <<"flush">>
         IN  /\ Count(events, "decode_rest") = 1
             /\ Count(events, "next_token") = Count(events, "sample") - 1
             /\ Count(events, "forward") = Count(events, "sample")
             /\ forwards = Count(events, "sample")
             /\ IsPrefix(tail, calls)
             /\ Len(tail) >= 3
             /\ pc = "WriteRest" => (frag # <<>> /\ pending = frag)
             /\ pc = "Done" => tail = calls
             /\ tokens # <<>> =>
                  /\ tokens[Len(tokens)] = T_EOS
                  /\ generated_tokens = Count(events, "sample")
                  /\ Len(tokens) = P + generated_tokens

\* C21 witness: the stop token came third, decode_rest returned text that had
\* been withheld, and the run returned Ok.
C21_Witness ==
    /\ pc = "Done"
    /\ outcome = "Stopped"
    /\ generated_tokens = 3
    /\ Count(events, "next_token") = 2
    /\ After(events, "decode_rest") = <<"write_all", "flush">>

\* The smaller of two numbers.
Min(a, b) == IF a <= b THEN a ELSE b

\* C22: a generator whose factor is 1 never calls the penalty; one whose factor
\* is not 1 gives it, at every step, the last min(repeat_last_n, len) tokens of
\* the history as it is before the sampled token is appended, prompt tokens
\* included, which is no token at all when repeat_last_n is 0; and the sampler
\* is handed the model's scores penalised over exactly those tokens.
C22_PenaltyContext ==
    /\ repeat_penalty = 10 => ~penalized.called
    /\ (repeat_penalty # 10 /\ logits # NoScores) => penalized.called
    /\ ( /\ penalized.called
         /\ pc \in {"Loop", "WriteFrag", "WriteRest", "Flush", "Done"} ) =>
         LET h == SubSeq(tokens, 1, Len(tokens) - 1)
             n == Min(repeat_last_n, Len(h))
         IN  /\ Len(penalized.context) = n
             /\ penalized.context = SubSeq(h, Len(h) - n + 1, Len(h))
             /\ repeat_last_n = 0 => penalized.context = <<>>
             /\ repeat_last_n >= Len(h) => penalized.context = h
             /\ scores = apply_repeat_penalty(logits, repeat_penalty,
                                              penalized.context)

\* C22 witness: the second step of a run with a window of 2, whose penalty
\* was given the last prompt token and the first generated token and changed
\* the scores.
C22_Witness ==
    /\ repeat_last_n = 2
    /\ forwards = 2
    /\ pc \in {"Loop", "WriteFrag"}
    /\ penalized.called
    /\ penalized.context = <<tokens[P], tokens[P + 1]>>
    /\ scores # logits

\* The places of the log at which a call of the given name was made.
Positions(log, name) == {i \in 1..Len(log) : log[i] = name}

\* The calls of the step that begins at place i of the log: up to the next
\* window selection, or to the end of the log.
Segment(log, i) ==
    LET later == {j \in Positions(log, "window") : j > i}
        stop  == IF later = {} THEN Len(log) + 1
                 ELSE CHOOSE j \in later : \A k \in later : j <= k
    IN  SubSeq(log, i, stop - 1)

\* The calls of a step that continues, in the order the claim gives them; the
\* penalty is called unless the factor is 1, the write unless next_token
\* returned nothing.
StepShape(written) ==
    <<"window", "input", "forward">>
      \o (IF repeat_penalty = 10 THEN <<>> ELSE <<"penalty">>)
      \o <<"sample", "push", "check", "next_token">>
      \o (IF written THEN <<"write_all">> ELSE <<>>)
      \o <<"advance">>

\* The calls of the step that samples the end-of-text token, and of the flush
\* that follows it.
StopShape(written) ==
    <<"window", "input", "forward">>
      \o (IF repeat_penalty = 10 THEN <<>> ELSE <<"penalty">>)
      \o <<"sample", "push", "check", "decode_rest">>
      \o (IF written THEN <<"write_all">> ELSE <<>>)
      \o <<"flush">>

\* C23: every step of a run makes its calls in the order window selection,
\* forward pass, repetition penalty, sampling, append, stop check, next_token,
\* write of the fragment, position advance; a step that is followed by another
\* has made all of them through the position advance before the next window
\* is chosen and the next forward pass begins, and while a fragment is being
\* written no forward pass is ahead of the position.
C23_StepOrder ==
    /\ \A i \in Positions(events, "window") :
         LET seg == Segment(events, i)
         IN  IF i + Len(seg) <= Len(events)
             THEN seg \in {StepShape(TRUE), StepShape(FALSE)}
             ELSE \E w \in BOOLEAN :
                    \/ IsPrefix(seg, StepShape(w) \o <<"flush">>)
                    \/ IsPrefix(seg, StopShape(w))
    /\ Count(events, "forward") = forwards
    /\ Count(events, "forward") = Len(windows)
    /\ pc = "WriteFrag" =>
         /\ events[Len(events)] = "next_token"
         /\ pending # <<>>
         /\ Count(events, "advance") = Count(events, "forward") - 1
         /\ index = Count(events, "advance")
    /\ pc = "Loop" =>
         /\ Count(events, "advance") = Count(events, "forward")
         /\ index = Count(events, "advance")

\* C23 witness: a finished run under a penalty with a step that wrote a
\* fragment and a step that wrote none, each followed by another step.
C23_Witness ==
    /\ pc = "Done"
    /\ repeat_penalty # 10
    /\ \E i, j \in Positions(events, "window") :
         /\ i < j
         /\ j + Len(Segment(events, j)) <= Len(events)
         /\ Segment(events, i) = StepShape(FALSE)
         /\ Segment(events, j) = StepShape(TRUE)

\* C24: a run flushes the sink at most once and makes no call after it; a run
\* that returned Ok, stopped or exhausted, flushed exactly once, after every
\* write; a run that failed flushed if and only if the flush is what failed;
\* and a run still going has not flushed.
C24_FlushOnce ==
    /\ Count(events, "flush") <= 1
    /\ Count(events, "flush") = 1 => events[Len(events)] = "flush"
    /\ pc = "Done" =>
         /\ Count(events, "flush") = 1
         /\ outcome \in {"Stopped", "Exhausted"}
         /\ error = "none"
    /\ pc = "Failed" => (error = "flush" <=> Count(events, "flush") = 1)
    /\ (pc = "Failed" /\ faulty /\ error = "flush") =>
         outcome \in {"Stopped", "Exhausted"}
    /\ pc \notin {"Done", "Failed"} => Count(events, "flush") = 0

\* C24 witness: an exhausted run whose last step wrote a fragment, advanced
\* and was followed by the one flush, on a generator whose calls can fail.
C24_Witness ==
    /\ pc = "Done"
    /\ faulty
    /\ outcome = "Exhausted"
    /\ Count(events, "flush") = 1
    /\ After(events, "next_token") = <<"write_all", "advance", "flush">>

\* The places of run at which its locals exist.
Alive(at) ==
    at \in {"WritePrompt", "Loop", "WriteFrag", "WriteRest", "Flush", "Done"}

\* C25: while a run goes on its history only grows, by at most the one sampled
\* token per step and always at the end; after every step the history is as
\* long as the prompt plus generated_tokens, generated_tokens is the number of
\* sampler calls made so far, a step makes exactly one sampler call, and a
\* sampled end-of-text token is in the history and counted like any other.
C25_HistoryAppendOnly ==
    [][ /\ (Alive(pc) /\ Alive(pc')) =>
             /\ IsPrefix(tokens, tokens')
             /\ Len(tokens') <= Len(tokens) + 1
             /\ Len(tokens') = Len(tokens) + 1 <=>
                  Count(events', "sample") = Count(events, "sample") + 1
             /\ Count(events', "sample") \in
                  {Count(events, "sample"), Count(events, "sample") + 1}
             /\ Count(events', "forward") # Count(events, "forward") =>
                  Count(events', "sample") = Count(events, "sample") + 1
        /\ Alive(pc') =>
             /\ Len(tokens') = P' + generated_tokens'
             /\ generated_tokens' = Count(events', "sample")
             /\ SubSeq(tokens', 1, P') = Encode(prompt')
             /\ outcome' = "Stopped" =>
                  /\ tokens'[Len(tokens')] = T_EOS
                  /\ generated_tokens' >= 1
      ]_vars

\* C25 witness: a stopped run that sampled three tokens, the end-of-text token
\* last, all three in the history and counted.
C25_Witness ==
    /\ pc = "Done"
    /\ outcome = "Stopped"
    /\ Count(events, "sample") = 3
    /\ generated_tokens = 3
    /\ Len(tokens) = P + 3
    /\ tokens[P + 3] = T_EOS

\* The number of tokens in the first n windows handed to the model.
RECURSIVE Consumed(_, _)
Consumed(ws, n) == IF n = 0 THEN 0 ELSE Consumed(ws, n - 1) + Len(ws[n])

\* C26: at every forward pass of a run the offset handed to the model plus the
\* size of the window handed to it is the length of the history at that
\* moment, and the offset is the number of tokens handed to the model by the
\* earlier passes of the run; between steps pos plus the size of the next
\* window is the length of the history.
C26_OffsetPlusWindow ==
    /\ Len(offsets) = Len(windows)
    /\ \A k \in 1..Len(offsets) :
         /\ offsets[k] + Len(windows[k]) = P + (k - 1)
         /\ offsets[k] = Consumed(windows, k - 1)
    /\ pc = "Loop" =>
         /\ pos = Consumed(windows, Len(windows))
         /\ pos + ContextSize(index, tokens) = Len(tokens)

\* C26 witness: the third pass of a run over a three-token prompt: offset 4,
\* a window of one token, a history of five.
C26_Witness ==
    /\ P = 3
    /\ Len(offsets) = 3
    /\ offsets[3] = 4
    /\ Len(windows[3]) = 1
    /\ pc = "Loop"
    /\ Len(tokens) = 6

\* C27: a next_token call that returns a non-empty fragment leaves
\* current_index at the length of the history, so that no token is pending;
\* the fragment is the whole text of the window from prev_index beyond what
\* was emitted before, which is the text of the tokens withheld since the last
\* emission and of the token passed in; and everything fed so far has then
\* been emitted.
C27_EmissionCoversWithheld ==
    [][ ( /\ Len(tokenizer'.tokens) = Len(tokenizer.tokens) + 1
          /\ ~halted'
          /\ emitted' # emitted ) =>
          LET frag     == SubSeq(emitted', Len(emitted) + 1, Len(emitted'))
              withheld == Slice(tokenizer.tokens, tokenizer.current_index,
                                Len(tokenizer.tokens))
              text     == Decode(Slice(tokenizer'.tokens, tokenizer.prev_index,
                                       Len(tokenizer'.tokens)))
          IN  /\ tokenizer'.current_index = Len(tokenizer'.tokens)
              /\ tokenizer'.prev_index = tokenizer.current_index
              /\ Slice(tokenizer'.tokens, tokenizer'.prev_index,
                       tokenizer'.current_index)
                   = Append(withheld, tokenizer'.tokens[Len(tokenizer'.tokens)])
              /\ PrevText(tokenizer) \o frag = text
              /\ emitted' = decode_all(tokenizer')
              /\ decode_rest(tokenizer', "none").kind = "none"
      ]_vars

\* C27 witness: a stream whose last emission, not its first, covered two
\* withheld tokens and the token passed in.
C27_Witness ==
    /\ ~halted
    /\ emitted # <<>>
    /\ rest = <<>>
    /\ tokenizer.prev_index > 0
    /\ tokenizer.current_index = Len(tokenizer.tokens)
    /\ tokenizer.current_index - tokenizer.prev_index = 3

\* C28: a call on the stream that fails leaves prev_index and current_index as
\* they were before it, and the history either as it was (the decode of the
\* old window failed) or longer by exactly the token passed in, the old
\* history being kept in front (the decode after the push failed); nothing is
\* emitted by the failed call.
C28_FailedCallKeepsCursors ==
    [][ (~halted /\ halted') =>
          /\ tokenizer'.prev_index = tokenizer.prev_index
          /\ tokenizer'.current_index = tokenizer.current_index
          /\ \/ tokenizer'.tokens = tokenizer.tokens
             \/ /\ Len(tokenizer'.tokens) = Len(tokenizer.tokens) + 1
                /\ IsPrefix(tokenizer.tokens, tokenizer'.tokens)
          /\ emitted' = emitted
      ]_vars

\* C28 witness: a stream stopped by a failed call whose history holds, past
\* current_index, a token that completes a word on a character boundary: the
\* decode after the push is what failed, and the push was not undone.
C28_Witness ==
    /\ halted
    /\ tokenizer.prev_index > 0
    /\ tokenizer.current_index < Len(tokenizer.tokens)
    /\ LET text == Decode(Slice(tokenizer.tokens, tokenizer.prev_index,
                                Len(tokenizer.tokens)))
       IN  /\ CompletesWord(text, PrevText(tokenizer))
           /\ IsCharBoundary(text, ByteLen(PrevText(tokenizer)))

\* ----------------------------------------------------- BedrockAiBackend
\* The texts a ContentBlockDelta event carries.
DeltaTexts == {<<>>, <<"l", "s">>, <<" ">>, <<"-", "a">>}

\* The variants of ConverseStreamOutput other than ContentBlockDelta; "Unknown"
\* is the variant a later service version adds.
OtherKinds ==
    {"MessageStart", "MessageStop", "Metadata", "ContentBlockStart",
     "ContentBlockStop", "Unknown"}

\* What stream.recv() can return as Ok(Some(_)): a ContentBlockDelta whose
\* delta is a text, is of another kind (a tool use) or is absent, and the
\* other variants.
StreamEvents ==
    {[kind |-> "ContentBlockDelta", delta |-> "text", text |-> t] :
        t \in DeltaTexts}
    \cup {[kind |-> "ContentBlockDelta", delta |-> d, text |-> <<>>] :
        d \in {"tool_use", "absent"}}
    \cup {[kind |-> k, delta |-> "absent", text |-> <<>>] : k \in OtherKinds}

\* Ok(None): the stream is complete.
EndOfStream == [kind |-> "None", delta |-> "absent", text |-> <<>>]

\* What stream.recv() can return as Err: a service error with or without a
\* message, and an error that is not a service error.
StreamErrors ==
    {[kind |-> "Err", delta |-> d, text |-> <<>>] :
        d \in {"service", "service_no_message", "other"}}

\* The message of the error invoke returns for a stream error.
ErrorMessage(e) ==
    CASE e.delta = "service"            -> "throttled"
      [] e.delta = "service_no_message" -> "Unable to open stream error message"
      [] e.delta = "other"              -> "Unable to see stream error message"

\* A conversion that also gives the name of an event that is not a delta.
get_converse_output_textNamed(output) ==
    IF output.kind = "ContentBlockDelta" THEN output.text ELSE <<"?">>

\* BedrockAiBackend::get_converse_output_text; it returns Ok in every case.
get_converse_output_text(output) ==
    IF output.kind = "ContentBlockDelta"
    THEN IF output.delta = "absent" THEN <<>>
         ELSE IF output.delta = "text" THEN output.text
         ELSE <<>>
    ELSE <<>>

\* invoke up to the loop: the runtime is built, the request is sent; either
\* can fail and the message built from a role and a content always builds.
InvokeBegin ==
    /\ invoke_pc \in {"Idle", "Ok", "Err"}
    /\ received' = <<>>
    /\ response_text' = <<>>
    /\ \E step \in {"ok", "runtime", "send"} :
         IF step = "ok"
         THEN /\ invoke_pc' = "Receiving"
              /\ returned' = NoResult
         ELSE /\ invoke_pc' = "Err"
              /\ returned' = [kind |-> "Err", text |-> <<>>,
                              message |-> IF step = "send"
                                          THEN "Failed to send message"
                                          ELSE "runtime"]
    /\ UNCHANGED <<genVars, runVars, scoreVars, streamVars, detVars,
                   settings, load_pc, load_error>>

\* stream.recv() returns Ok(Some(event)): its text is pushed on response_text.
RecvEvent ==
    /\ invoke_pc = "Receiving"
    /\ Len(received) < MaxEvents
    /\ \E output \in StreamEvents :
         /\ received' = Append(received, output)
         /\ response_text' = response_text \o get_converse_output_text(output)
    /\ UNCHANGED <<invoke_pc, returned>>
    /\ UNCHANGED <<genVars, runVars, scoreVars, streamVars, detVars,
                   settings, load_pc, load_error>>

\* stream.recv() returns Ok(None): break, and invoke returns Ok(response_text).
RecvEnd ==
    /\ invoke_pc = "Receiving"
    /\ received' = Append(received, EndOfStream)
    /\ invoke_pc' = "Ok"
    /\ returned' = [kind |-> "Ok", text |-> response_text, message |-> ""]
    /\ response_text' = <<>>
    /\ UNCHANGED <<genVars, runVars, scoreVars, streamVars, detVars,
                   settings, load_pc, load_error>>

\* stream.recv() returns Err: invoke returns Err with the error's message and
\* response_text is dropped.
RecvError ==
    /\ invoke_pc = "Receiving"
    /\ \E e \in StreamErrors :
         /\ received' = Append(received, e)
         /\ returned' = [kind |-> "Err", text |-> <<>>,
                         message |-> ErrorMessage(e)]
    /\ invoke_pc' = "Err"
    /\ response_text' = <<>>
    /\ UNCHANGED <<genVars, runVars, scoreVars, streamVars, detVars,
                   settings, load_pc, load_error>>

\* A Bedrock backend on its own: no generator is run.
BedrockInit ==
    /\ Init
    /\ variant = "Phi"
    /\ ~faulty
    /\ has_eos

BedrockNext == InvokeBegin \/ RecvEvent \/ RecvEnd \/ RecvError

BedrockSpec == BedrockInit /\ [][BedrockNext]_vars

\* The texts of the text deltas among the first n results of recv, joined in
\* the order they arrived.
RECURSIVE DeltaTextUpTo(_, _)
DeltaTextUpTo(rs, n) ==
    IF n = 0 THEN <<>>
    ELSE DeltaTextUpTo(rs, n - 1)
           \o (IF rs[n].kind = "ContentBlockDelta" /\ rs[n].delta = "text"
               THEN rs[n].text ELSE <<>>)

\* C29: while invoke receives, response_text is the texts of the
\* ContentBlockDelta events received so far joined in arrival order, every
\* other event having added nothing; the loop goes on until recv returns the
\* end of the stream or an error and makes no call after that; at the end of
\* the stream invoke returns Ok with exactly that text, and on a stream error
\* it returns Err and no text.
C29_InvokeConcatenatesDeltas ==
    /\ \A i \in 1..(Len(received) - 1) : received[i] \in StreamEvents
    /\ invoke_pc = "Receiving" =>
         /\ \A i \in 1..Len(received) : received[i] \in StreamEvents
         /\ response_text = DeltaTextUpTo(received, Len(received))
         /\ returned.kind = "none"
    /\ invoke_pc = "Ok" =>
         /\ received # <<>>
         /\ received[Len(received)] = EndOfStream
         /\ returned.kind = "Ok"
         /\ returned.text = DeltaTextUpTo(received, Len(received) - 1)
    /\ invoke_pc = "Err" =>
         /\ returned.kind = "Err"
         /\ returned.text = <<>>
         /\ received # <<>> => received[Len(received)] \in StreamErrors
    /\ returned.kind = "Ok" => invoke_pc = "Ok"

\* C29 witness: invoke returned "ls-a" for a stream that delivered the text
\* delta "ls", a Metadata event and the text delta "-a" before it ended.
C29_Witness ==
    /\ invoke_pc = "Ok"
    /\ Len(received) = 4
    /\ received[1] = [kind |-> "ContentBlockDelta", delta |-> "text",
                      text |-> <<"l", "s">>]
    /\ received[2].kind = "Metadata"
    /\ received[3] = [kind |-> "ContentBlockDelta", delta |-> "text",
                      text |-> <<"-", "a">>]
    /\ returned.text = <<"l", "s", "-", "a">>

\* ------------------------------------------------------- LocalAiBackend
\* The local_model_config a backend can be given: model and quantized are
\* free, weight_file and tokenizer are a path or absent, and dtype, which has
\* a default, is a string that parses as a DType or one that does not.
LocalSettings ==
    [given       : {TRUE},
     model       : {"V2", "V3"},
     quantized   : BOOLEAN,
     weight_file : {"Some", "None"},
     tokenizer   : {"Some", "None"},
     dtype       : {"valid", "invalid"}]

\* The calls of load_local_model that can return Err, in the order they are
\* made; "none" is the call in which all of them return Ok.
LoadFaults ==
    {"none", "api", "tokenizer_get", "weights_get", "from_file", "device",
     "from_gguf", "mmap", "config_get", "model_new"}

\* What load_local_model returns for a fallible call that returned Err.
LoadErr(message) == [kind |-> "Err", message |-> message]

\* The model half of load_local_model (the if at the end), for a quantized and
\* for a full-precision model.  The config closure panics for V3.
BuildModel(s, fault) ==
    IF s.quantized
    THEN IF s.model = "V3"
         THEN [kind |-> "Panic",
               message |-> "use the quantized or quantized-phi examples for quantized phi-v3"]
         ELSE IF fault = "from_gguf" THEN LoadErr("from_gguf")
         ELSE IF fault = "model_new" THEN LoadErr("model_new")
         ELSE [kind |-> "Ok", message |-> "Quantized"]
    ELSE IF s.dtype = "invalid" THEN LoadErr("dtype")
         ELSE IF fault = "mmap" THEN LoadErr("mmap")
         ELSE IF fault = "config_get" THEN LoadErr("config_get")
         ELSE IF fault = "model_new" THEN LoadErr("model_new")
         ELSE [kind |-> "Ok",
               message |-> IF s.model = "V2" THEN "Phi" ELSE "Phi3"]

\* LocalAiBackend::load_local_model over settings s, with fault the call that
\* returns Err if it is reached.
load_local_model(s, fault) ==
    IF fault = "api" THEN LoadErr("api")
    ELSE IF s.tokenizer = "None" /\ fault = "tokenizer_get"
    THEN LoadErr("tokenizer_get")
    ELSE IF s.weight_file = "None" /\ s.quantized /\ s.model = "V3"
    THEN LoadErr("use the quantized or quantized-phi examples for quantized phi-v3")
    ELSE IF s.weight_file = "None" /\ fault = "weights_get"
    THEN LoadErr("weights_get")
    ELSE IF fault = "from_file" THEN LoadErr("from_file")
    ELSE IF fault = "device" THEN LoadErr("device")
    ELSE BuildModel(s, fault)

\* LocalAiBackend::new
NewLocalBackend ==
    /\ ~settings.given
    /\ settings' \in LocalSettings
    /\ UNCHANGED <<load_pc, load_error>>
    /\ UNCHANGED <<genVars, runVars, scoreVars, streamVars, detVars,
                   invoke_pc, received, response_text, returned>>

\* A call of load_local_model: it returns Ok or Err, or panics.
LoadLocalModel ==
    /\ settings.given
    /\ \E fault \in LoadFaults :
         LET r == load_local_model(settings, fault)
         IN  /\ load_pc' = CASE r.kind = "Ok"    -> "Ok"
                             [] r.kind = "Err"   -> "Err"
                             [] r.kind = "Panic" -> "Panicked"
             /\ load_error' = r.message
    /\ UNCHANGED settings
    /\ UNCHANGED <<genVars, runVars, scoreVars, streamVars, detVars,
                   invoke_pc, received, response_text, returned>>

\* A local backend on its own: no generator is run.
LoadInit ==
    /\ Init
    /\ variant = "Phi"
    /\ ~faulty
    /\ has_eos

LoadNext == NewLocalBackend \/ LoadLocalModel

LoadSpec == LoadInit /\ [][LoadNext]_vars

\* C30 as stated: for quantized = TRUE and model = V3, whether or not a
\* weight_file is configured, a call of load_local_model returns Err: it
\* does not panic and does not return a model.
C30_UnsupportedIsAnError ==
    ( /\ settings.given
      /\ settings.quantized
      /\ settings.model = "V3"
      /\ load_pc # "Idle" ) => load_pc = "Err"

====
